---- MODULE Spec2Model ----
(***************************************************************************)
(* GitHubAutoUpdater (src/check.py): the poll loop run(), the update check *)
(* has_update_available() and the update pipeline perform_update() with    *)
(* its five stages.  The program is single-threaded; every external call   *)
(* (HTTP request, subprocess, sleep) is a step whose outcome is chosen by  *)
(* the environment.  A KeyboardInterrupt can arrive at any step.           *)
(*                                                                         *)
(* Spec / FairSpec: continuous mode (run()), valid configurations.         *)
(* OnceSpec / OnceFairSpec: single-shot mode (main() with --once).         *)
(* AnyRetrySpec: single-shot mode with any retry count the constructor     *)
(* accepts, zero and negative values included.                             *)
(***************************************************************************)
EXTENDS Integers, Sequences, FiniteSets, TLC

(* ----- bounds of the model ----- *)
MaxRetries == 2
NumCommits == 2
NonPositiveRetries == 2     \* how many retry counts <= 0 are explored

(* ----- program constants ----- *)
NumCommands == 3
NumScripts == 3
NumServices == 3

None == 0
Commits == 1..NumCommits

(* Outcomes of subprocess.run / requests.get as the code distinguishes them. *)
(* "error" is any exception other than CalledProcessError / TimeoutExpired   *)
(* (an OSError: missing executable, missing working directory).              *)
RemoteOutcomes == {"ok", "missing_field", "not_found", "forbidden", "other_status", "network_error"}
LocalOutcomes == {"ok", "exit_nonzero", "error"}
BackupOutcomes == {"ok", "exit_nonzero", "error"}
CmdOutcomes == {"ok", "exit_nonzero", "timeout", "error"}
StatusOutcomes == {"active", "inactive", "error"}

Retried == {"fetch", "checkout", "reset", "pip"}
CommandName_CheckoutFirst(i) == IF i = 1 THEN "checkout" ELSE IF i = 2 THEN "fetch" ELSE "reset"

CommandName(i) == IF i = 1 THEN "fetch" ELSE IF i = 2 THEN "checkout" ELSE "reset"

VARIABLES
    max_retries,    \* self.max_retries
    remoteTip,      \* tip of the tracked branch at the remote
    head,           \* revision `git rev-parse HEAD` resolves to
    fetched,        \* origin/<branch> as of the last successful fetch
    last_commit,    \* self.last_commit
    update_count,   \* self.update_count
    pc,             \* position of the single thread
    cmd,            \* index of the current command / script / service
    attempt,        \* loop variable `attempt`
    commit_info,    \* sha of the descriptor handed to perform_update
    lastCheck,      \* what the last has_update_available call saw and returned
    run,            \* record of the current / last perform_update call
    caught,         \* the previous cycle ended in the `except Exception` handler
    cancelledAt,    \* pc at which KeyboardInterrupt arrived ("none" if it did not)
    succeededFor,   \* sha X of the last successful run while the tip stayed X
    failedFor,      \* sha X of the last run that returned False while the tip stayed X
    once,           \* args.once: main() makes one check instead of calling run()
    notified        \* send_notification calls of the current cycle, in order

vars == <<max_retries, remoteTip, head, fetched, last_commit, update_count,
          pc, cmd, attempt, commit_info, lastCheck, run, caught, cancelledAt,
          succeededFor, failedFor, once, notified>>

env == <<remoteTip>>
config == <<max_retries, once>>
repo == <<head, fetched>>
state == <<last_commit, update_count>>
hist == <<succeededFor, failedFor, notified>>

PipelinePcs == {"backup", "fetch", "fetch_sleep", "install", "pip", "pip_sleep",
                "scripts", "restart"}

(* The thread has left the program: the loop of run() was stopped by        *)
(* KeyboardInterrupt, or main() returned, or an exception left main().      *)
Halted == {"stopped", "returned", "crashed"}

NoCheck == [remote |-> "none", local |-> "none", tip |-> None, headAt |-> None,
            raised |-> FALSE, has |-> FALSE, info |-> None]

(* The record of one perform_update call.  attempts / waits count the        *)
(* subprocess calls and retry sleeps of the command in progress; the fin*    *)
(* fields keep the counts of the command that finished last; last is the     *)
(* script or service processed last, with what happened to it.               *)
NoRun == [sha |-> None, pre_commit |-> None, pre_count |-> 0, tipMoved |-> FALSE,
          backup |-> "none", syncRet |-> "none", manifest |-> "none", depsRet |-> "none",
          result |-> "none", ran |-> {}, done |-> {},
          exhausted |-> "none", exhaustedBy |-> "none",
          attempts |-> 0, waits |-> 0,
          finCmd |-> "none", finAttempts |-> 0, finWaits |-> 0, finOkAt |-> 0,
          softFail |-> FALSE, error |-> "none",
          last |-> [stage |-> "none", idx |-> 0, outcome |-> "none"]]


(* ----- configuration and construction: __init__ ----- *)
(* Spec starts from the configurations that satisfy the Config invariant:   *)
(* the retry count is a positive integer (the constructor's default is 3)   *)
(* and the poll interval and retry delay are valid arguments of time.sleep, *)
(* so the sleeps of lines 158, 163, 193, 198, 342 and 349 do not raise.     *)
RetryCounts == 1..MaxRetries

(* config.get('max_retries', 3) applies no check: whatever integer the      *)
(* configuration file holds is accepted, zero and negative values included. *)
AcceptedRetryCounts == (1 - NonPositiveRetries)..MaxRetries

GetLocalCommit(lo) == IF lo = "ok" THEN head ELSE None

Constructed(counts, single) ==
    /\ max_retries \in counts
    /\ once = single
    /\ remoteTip \in Commits
    /\ head \in Commits
    /\ fetched = head
    /\ \E lo \in LocalOutcomes : last_commit = GetLocalCommit(lo)
    /\ update_count = 0
    /\ pc = "check"
    /\ cmd = 0
    /\ attempt = 0
    /\ commit_info = None
    /\ lastCheck = NoCheck
    /\ run = NoRun
    /\ caught = FALSE
    /\ cancelledAt = "none"
    /\ succeededFor = None
    /\ failedFor = None
    /\ notified = <<>>

(* continuous mode (main() line 404) with a valid configuration *)
Init == Constructed(RetryCounts, FALSE)

(* single-shot mode (main() lines 394-401) with a valid configuration *)
OnceInit == Constructed(RetryCounts, TRUE)

(* single-shot mode with any retry count the constructor accepts *)
AnyRetryInit == Constructed(AcceptedRetryCounts, TRUE)

(* ----- CommitTracker: get_remote_commit_info, has_update_available ----- *)
(* The descriptor is represented by its sha.  A 200 body that lacks a      *)
(* required key makes the subscripting at lines 81-87 raise KeyError,      *)
(* which `except requests.RequestException` does not catch.                *)
GetRemoteCommitInfo(ro) ==
    [raised |-> (ro = "missing_field"),
     info |-> IF ro = "ok" THEN remoteTip ELSE None]

HasUpdateAvailable_NoLocalGuard(ro, lo) ==
    LET remote == GetRemoteCommitInfo(ro)
        local == GetLocalCommit(lo)
    IN  IF remote.raised THEN [raised |-> TRUE, has |-> FALSE, info |-> None]
        ELSE IF remote.info = None THEN [raised |-> FALSE, has |-> FALSE, info |-> None]
        ELSE IF remote.info /= local THEN [raised |-> FALSE, has |-> TRUE, info |-> remote.info]
        ELSE [raised |-> FALSE, has |-> FALSE, info |-> remote.info]

HasUpdateAvailable(ro, lo) ==
    LET remote == GetRemoteCommitInfo(ro)
        local == GetLocalCommit(lo)
    IN  IF remote.raised THEN [raised |-> TRUE, has |-> FALSE, info |-> None]
        ELSE IF remote.info = None THEN [raised |-> FALSE, has |-> FALSE, info |-> None]
        ELSE IF local = None THEN [raised |-> FALSE, has |-> FALSE, info |-> remote.info]
        ELSE IF remote.info /= local THEN [raised |-> FALSE, has |-> TRUE, info |-> remote.info]
        ELSE [raised |-> FALSE, has |-> FALSE, info |-> remote.info]

(* run(), line 331: `if has_update and commit_info` *)
ShouldUpdate_InfoOnly(ret) == ret.info /= None

ShouldUpdate(ret) == ret.has /\ ret.info /= None

(* ----- decisions of perform_update and of the retry loops ----- *)
AfterFetch_Ignored(ok) == "install"

AfterFetch(ok) == IF ok THEN "install" ELSE "return_false"

AfterInstall_Ignored(ok) == "scripts"

AfterInstall(ok) == IF ok THEN "scripts" ELSE "return_false"

LastAttempt_NoRetry(a) == TRUE

LastAttempt(a) == a = max_retries - 1

(* run_custom_scripts line 228 and restart_application line 253 catch       *)
(* CalledProcessError and TimeoutExpired only.                              *)
ScriptRaises_Any(o) == o /= "ok"

ScriptRaises(o) == o \notin {"ok", "exit_nonzero", "timeout"}

RestartRaises(o) == o \notin {"ok", "exit_nonzero", "timeout"}

(* The handler of `except Exception` in run() logs, sleeps and loops.  The  *)
(* outer `except Exception` of line 351 is reached only if the handler      *)
(* itself raises, which a valid poll interval excludes.                     *)
AfterHandler_Stop == "stopped"

AfterHandler == "check"

(* ----- what follows perform_update in its two callers ----- *)
(* run() line 335 reports every returned value; main() lines 398-399 report *)
(* nothing.  The descriptor passed is the one perform_update received.      *)
SendNotification(info, success) ==
    IF once THEN notified
    ELSE Append(notified, [sha |-> info, success |-> success])

(* run() goes on to the wait of line 342; main() returns after line 399.    *)
AfterPerformUpdate_AlwaysWaits == "sleep"

AfterPerformUpdate == IF once THEN "returned" ELSE "sleep"

(* run() catches an Exception at line 347; main() has no handler.           *)
AfterException == IF once THEN "crashed" ELSE "sleep_exc"

(* ----- how a step leaves perform_update or moves on inside it ----- *)
Continue(nextpc, nextcmd, r) ==
    /\ pc' = nextpc
    /\ cmd' = nextcmd
    /\ attempt' = 0
    /\ run' = r
    /\ UNCHANGED <<state, caught, hist>>

ReturnFalse(r) ==
    /\ pc' = AfterPerformUpdate
    /\ cmd' = 0
    /\ attempt' = 0
    /\ run' = [r EXCEPT !.result = "false"]
    /\ failedFor' = IF r.tipMoved THEN None ELSE commit_info
    /\ notified' = SendNotification(commit_info, FALSE)
    /\ UNCHANGED <<state, caught, succeededFor>>

ReturnTrue(r) ==
    /\ last_commit' = commit_info
    /\ update_count' = update_count + 1
    /\ pc' = AfterPerformUpdate
    /\ cmd' = 0
    /\ attempt' = 0
    /\ run' = [r EXCEPT !.result = "true"]
    /\ succeededFor' = IF r.tipMoved THEN None ELSE commit_info
    /\ notified' = SendNotification(commit_info, TRUE)
    /\ UNCHANGED <<caught, failedFor>>

Raise(r) ==
    /\ pc' = AfterException
    /\ cmd' = 0
    /\ attempt' = 0
    /\ run' = [r EXCEPT !.result = "raised"]
    /\ caught' = ~once
    /\ UNCHANGED <<state, hist>>

Goto(where, r) ==
    CASE where = "return_false" -> ReturnFalse(r)
      [] where = "install" -> Continue("install", 0, r)
      [] where = "scripts" -> Continue("scripts", 1, r)


(* ----- run(): one poll cycle, lines 329-340 ----- *)
RunCheck(ro, lo) ==
    /\ pc = "check"
    /\ ~once
    /\ (ro /= "ok" => lo = "ok")      \* get_local_commit is not called then
    /\ LET ret == HasUpdateAvailable(ro, lo)
       IN  /\ lastCheck' = [remote |-> ro,
                            local |-> IF ro = "ok" THEN lo ELSE "none",
                            tip |-> remoteTip, headAt |-> head,
                            raised |-> ret.raised, has |-> ret.has, info |-> ret.info]
           /\ commit_info' = ret.info
           /\ caught' = ret.raised
           /\ attempt' = 0
           /\ cmd' = 0
           /\ IF ret.raised
              THEN pc' = "sleep_exc" /\ run' = run
              ELSE IF ShouldUpdate(ret)
              THEN /\ pc' = "backup"
                   /\ run' = [NoRun EXCEPT !.sha = ret.info,
                                           !.pre_commit = last_commit,
                                           !.pre_count = update_count]
              ELSE pc' = "sleep" /\ run' = run
    /\ failedFor' = None
    /\ UNCHANGED <<config, env, repo, state, cancelledAt, succeededFor, notified>>

(* ----- main(): the single check of lines 396-401 ----- *)
(* No handler surrounds it: an exception of the check or of the run leaves  *)
(* main(); nothing is reported after the run; main() then returns.          *)
OnceCheck(ro, lo) ==
    /\ pc = "check"
    /\ once
    /\ (ro /= "ok" => lo = "ok")      \* get_local_commit is not called then
    /\ LET ret == HasUpdateAvailable(ro, lo)
       IN  /\ lastCheck' = [remote |-> ro,
                            local |-> IF ro = "ok" THEN lo ELSE "none",
                            tip |-> remoteTip, headAt |-> head,
                            raised |-> ret.raised, has |-> ret.has, info |-> ret.info]
           /\ commit_info' = ret.info
           /\ attempt' = 0
           /\ cmd' = 0
           /\ IF ret.raised
              THEN pc' = AfterException /\ run' = run
              ELSE IF ret.has
              THEN /\ pc' = "backup"
                   /\ run' = [NoRun EXCEPT !.sha = ret.info,
                                           !.pre_commit = last_commit,
                                           !.pre_count = update_count]
              ELSE pc' = "returned" /\ run' = run
    /\ UNCHANGED <<config, env, repo, state, caught, cancelledAt, hist>>

(* ----- stage 1: create_backup, lines 256-270 (`except Exception`) ----- *)
CreateBackup(o) ==
    /\ pc = "backup"
    /\ Continue("fetch", 1, [run EXCEPT !.ran = @ \cup {"backup"},
                                       !.backup = IF o = "ok" THEN "true" ELSE "false"])
    /\ UNCHANGED <<config, env, repo, commit_info, lastCheck, cancelledAt>>

(* ----- stage 2: fetch_latest_code, lines 125-165 ----- *)
Attempted(c) ==
    [run EXCEPT !.ran = @ \cup {c}, !.attempts = @ + 1]

Finished(r, c, k) ==
    [r EXCEPT !.finCmd = c, !.finAttempts = r.attempts, !.finWaits = r.waits,
              !.finOkAt = k, !.attempts = 0, !.waits = 0]

Succeeded(r, c, k) ==
    [Finished(r, c, k) EXCEPT !.done = @ \cup {c}]

Exhausted(r, c, kind) ==
    [Finished(r, c, 0) EXCEPT !.exhausted = c, !.exhaustedBy = kind]

(* Effect of the commands on the repository: `git fetch origin` moves       *)
(* origin/<branch> to the remote tip, `git checkout <branch>` stays on the  *)
(* tracked branch, `git reset --hard origin/<branch>` moves HEAD to the     *)
(* fetched tip.                                                             *)
FetchOk ==
    /\ pc = "fetch"
    /\ attempt < max_retries
    /\ LET c == CommandName(cmd)
           r == Succeeded(Attempted(c), c, attempt + 1)
       IN  /\ fetched' = IF c = "fetch" THEN remoteTip ELSE fetched
           /\ head' = IF c = "reset" THEN fetched ELSE head
           /\ IF cmd < NumCommands
              THEN Continue("fetch", cmd + 1, r)
              ELSE Goto(AfterFetch(TRUE), [r EXCEPT !.syncRet = "true"])
    /\ UNCHANGED <<config, env, commit_info, lastCheck, cancelledAt>>

FetchFail(kind) ==
    /\ pc = "fetch"
    /\ attempt < max_retries
    /\ kind \in {"exit_nonzero", "timeout"}
    /\ LET c == CommandName(cmd)
           r == Attempted(c)
       IN  IF LastAttempt(attempt)
           THEN Goto(AfterFetch(FALSE), [Exhausted(r, c, kind) EXCEPT !.syncRet = "false"])
           ELSE /\ pc' = "fetch_sleep"
                /\ run' = r
                /\ UNCHANGED <<cmd, attempt, state, caught, hist>>
    /\ UNCHANGED <<config, env, repo, commit_info, lastCheck, cancelledAt>>

FetchError ==
    /\ pc = "fetch"
    /\ attempt < max_retries
    /\ Raise([Attempted(CommandName(cmd)) EXCEPT !.syncRet = "raised",
                                                 !.error = CommandName(cmd)])
    /\ UNCHANGED <<config, env, repo, commit_info, lastCheck, cancelledAt>>

FetchRetryDelay ==
    /\ pc = "fetch_sleep"
    /\ pc' = "fetch"
    /\ attempt' = attempt + 1
    /\ run' = [run EXCEPT !.waits = @ + 1]
    /\ UNCHANGED <<config, env, repo, state, cmd, commit_info, lastCheck, caught,
                   cancelledAt, hist>>

(* `for attempt in range(self.max_retries)` with max_retries <= 0: the body *)
(* never runs, the loop ends at once and the next command's loop follows;   *)
(* after the third, line 165 returns True.                                  *)
FetchLoopEnd ==
    /\ pc = "fetch"
    /\ ~(attempt < max_retries)
    /\ IF cmd < NumCommands
       THEN Continue("fetch", cmd + 1, run)
       ELSE Goto(AfterFetch(TRUE), [run EXCEPT !.syncRet = "true"])
    /\ UNCHANGED <<config, env, repo, commit_info, lastCheck, cancelledAt>>

(* ----- stage 3: install_dependencies, lines 167-202 ----- *)
(* line 171: the install command is run only if requirements.txt exists *)
NeedsInstall_Always(exists) == TRUE

NeedsInstall(exists) == exists

InstallDependencies(exists) ==
    /\ pc = "install"
    /\ LET r == [run EXCEPT !.manifest = IF exists THEN "present" ELSE "absent"]
       IN  IF NeedsInstall(exists)
           THEN Continue("pip", 0, r)
           ELSE Goto(AfterInstall(TRUE), [r EXCEPT !.depsRet = "true"])
    /\ UNCHANGED <<config, env, repo, commit_info, lastCheck, cancelledAt>>

PipOk ==
    /\ pc = "pip"
    /\ attempt < max_retries
    /\ Goto(AfterInstall(TRUE),
            [Succeeded(Attempted("pip"), "pip", attempt + 1) EXCEPT !.depsRet = "true"])
    /\ UNCHANGED <<config, env, repo, commit_info, lastCheck, cancelledAt>>

PipFail(kind) ==
    /\ pc = "pip"
    /\ attempt < max_retries
    /\ kind \in {"exit_nonzero", "timeout"}
    /\ LET r == Attempted("pip")
       IN  IF LastAttempt(attempt)
           THEN Goto(AfterInstall(FALSE), [Exhausted(r, "pip", kind) EXCEPT !.depsRet = "false"])
           ELSE /\ pc' = "pip_sleep"
                /\ run' = r
                /\ UNCHANGED <<cmd, attempt, state, caught, hist>>
    /\ UNCHANGED <<config, env, repo, commit_info, lastCheck, cancelledAt>>

PipError ==
    /\ pc = "pip"
    /\ attempt < max_retries
    /\ Raise([Attempted("pip") EXCEPT !.depsRet = "raised", !.error = "pip"])
    /\ UNCHANGED <<config, env, repo, commit_info, lastCheck, cancelledAt>>

PipRetryDelay ==
    /\ pc = "pip_sleep"
    /\ pc' = "pip"
    /\ attempt' = attempt + 1
    /\ run' = [run EXCEPT !.waits = @ + 1]
    /\ UNCHANGED <<config, env, repo, state, cmd, commit_info, lastCheck, caught,
                   cancelledAt, hist>>


(* With max_retries <= 0 the loop of line 174 ends without a return: the    *)
(* function falls off its end and returns None, which `not` takes as False. *)
PipLoopEnd ==
    /\ pc = "pip"
    /\ ~(attempt < max_retries)
    /\ Goto(AfterInstall(FALSE), [run EXCEPT !.depsRet = "null"])
    /\ UNCHANGED <<config, env, repo, commit_info, lastCheck, cancelledAt>>

(* ----- stage 4: run_custom_scripts, lines 204-229 ----- *)
RunCustomScript(exists, o) ==
    /\ pc = "scripts"
    /\ (~exists => o = "ok")          \* the command is not run then
    /\ LET r == IF exists
                THEN [run EXCEPT !.ran = @ \cup {"script"},
                                 !.softFail = @ \/ o \in {"exit_nonzero", "timeout"},
                                 !.error = IF o = "error" THEN "script" ELSE @,
                                 !.last = [stage |-> "script", idx |-> cmd, outcome |-> o]]
                ELSE [run EXCEPT !.last = [stage |-> "script", idx |-> cmd,
                                           outcome |-> "skipped"]]
       IN  IF exists /\ ScriptRaises(o)
           THEN Raise(r)
           ELSE IF cmd < NumScripts
           THEN Continue("scripts", cmd + 1, r)
           ELSE Continue("restart", 1, r)
    /\ UNCHANGED <<config, env, repo, commit_info, lastCheck, cancelledAt>>

(* ----- stage 5: restart_application, lines 231-254, then lines 296-301 ----- *)
RestartService(st, o) ==
    /\ pc = "restart"
    /\ (st /= "active" => o = "ok")   \* no restart request is issued then
    /\ LET r == IF st = "active"
                THEN [run EXCEPT !.ran = @ \cup {"status", "restart"},
                                 !.softFail = @ \/ o \in {"exit_nonzero", "timeout"},
                                 !.error = IF o = "error" THEN "restart" ELSE @,
                                 !.last = [stage |-> "restart", idx |-> cmd, outcome |-> o]]
                ELSE [run EXCEPT !.ran = @ \cup {"status"},
                                 !.error = IF st = "error" THEN "status" ELSE @,
                                 !.last = [stage |-> "restart", idx |-> cmd,
                                           outcome |-> IF st = "error" THEN "error"
                                                       ELSE "skipped"]]
       IN  IF st = "error"
           THEN Raise(r)
           ELSE IF st = "active" /\ RestartRaises(o)
           THEN Raise(r)
           ELSE IF cmd < NumServices
           THEN Continue("restart", cmd + 1, r)
           ELSE ReturnTrue(r)
    /\ UNCHANGED <<config, env, repo, commit_info, lastCheck, cancelledAt>>

(* ----- run(): the waits of lines 342 and 349 ----- *)
(* The records of the finished cycle (lastCheck, run) are cleared when the   *)
(* next cycle begins; commit_info is reassigned by line 329 before any use. *)
Sleep ==
    /\ pc = "sleep"
    /\ pc' = "check"
    /\ lastCheck' = NoCheck
    /\ run' = NoRun
    /\ commit_info' = None
    /\ notified' = <<>>
    /\ UNCHANGED <<config, env, repo, state, cmd, attempt,
                   caught, cancelledAt, succeededFor, failedFor>>

HandlerSleep ==
    /\ pc = "sleep_exc"
    /\ pc' = AfterHandler
    /\ lastCheck' = NoCheck
    /\ run' = NoRun
    /\ commit_info' = None
    /\ notified' = <<>>
    /\ UNCHANGED <<config, env, repo, state, cmd, attempt,
                   caught, cancelledAt, succeededFor, failedFor>>

(* ----- KeyboardInterrupt: run() lines 344-346, and 353 from the handler ----- *)
(* No function of the class catches it (`except Exception` does not), so it *)
(* unwinds from wherever the thread is to run(), which leaves the loop: by  *)
(* the `break` of line 346 from the try body (the wait of line 342          *)
(* included), and through the outer `finally` from the handler's wait of    *)
(* line 349, where neither `except KeyboardInterrupt` (a sibling clause)    *)
(* nor the outer `except Exception` applies.  In single-shot mode it leaves *)
(* main().  time.sleep does not resume once the signal handler has raised.  *)
AfterInterrupt_HandlerResumes(p) == IF p = "sleep_exc" THEN "check" ELSE "stopped"

AfterInterrupt(p) == "stopped"

Interrupt ==
    /\ pc \notin Halted
    /\ pc' = AfterInterrupt(pc)
    /\ cancelledAt' = pc
    /\ run' = IF pc \in PipelinePcs THEN [run EXCEPT !.result = "cancelled"] ELSE run
    /\ UNCHANGED <<config, env, repo, state, cmd, attempt, commit_info, lastCheck,
                   caught, hist>>

(* ----- environment: a push moves the tracked branch to a new commit ----- *)
(* Commits are numbered in the order in which they become the tip.          *)
RemoteAdvance(c) ==
    /\ pc \notin Halted
    /\ c > remoteTip
    /\ remoteTip' = c
    /\ succeededFor' = None
    /\ failedFor' = None
    /\ run' = IF pc \in PipelinePcs THEN [run EXCEPT !.tipMoved = TRUE] ELSE run
    /\ UNCHANGED <<config, repo, state, pc, cmd, attempt, commit_info, lastCheck,
                   caught, cancelledAt, notified>>

(* the steps of perform_update *)
Pipeline ==
    \/ \E o \in BackupOutcomes : CreateBackup(o)
    \/ FetchOk
    \/ \E k \in CmdOutcomes : FetchFail(k)
    \/ FetchError
    \/ FetchRetryDelay
    \/ \E e \in BOOLEAN : InstallDependencies(e)
    \/ PipOk
    \/ \E k \in CmdOutcomes : PipFail(k)
    \/ PipError
    \/ PipRetryDelay
    \/ \E e \in BOOLEAN, o \in CmdOutcomes : RunCustomScript(e, o)
    \/ \E st \in StatusOutcomes, o \in CmdOutcomes : RestartService(st, o)

Program ==
    \/ \E ro \in RemoteOutcomes, lo \in LocalOutcomes : RunCheck(ro, lo)
    \/ Pipeline
    \/ Sleep
    \/ HandlerSleep

Environment ==
    \/ Interrupt
    \/ \E c \in Commits : RemoteAdvance(c)

Next ==
    \/ Program
    \/ Environment

Spec == Init /\ [][Next]_vars

(* The thread keeps running: every external call returns (time-outs, finite *)
(* sleeps), so a program step that is possible is eventually taken.         *)
FairSpec == Spec /\ WF_vars(Program)

(* ----- single-shot mode ----- *)
OnceProgram ==
    \/ \E ro \in RemoteOutcomes, lo \in LocalOutcomes : OnceCheck(ro, lo)
    \/ Pipeline

OnceNext ==
    \/ OnceProgram
    \/ Environment

OnceSpec == OnceInit /\ [][OnceNext]_vars

OnceFairSpec == OnceSpec /\ WF_vars(OnceProgram)

(* ----- single-shot mode, any accepted retry count ----- *)
AnyRetryNext ==
    \/ OnceNext
    \/ FetchLoopEnd
    \/ PipLoopEnd

AnyRetrySpec == AnyRetryInit /\ [][AnyRetryNext]_vars


(* ======================= properties ======================= *)
SyncCommands == {"fetch", "checkout", "reset"}

\* what must not have run once command c has given up
LaterThan(c) ==
    CASE c = "fetch" -> {"checkout", "reset", "pip", "script", "status", "restart"}
      [] c = "checkout" -> {"reset", "pip", "script", "status", "restart"}
      [] c = "reset" -> {"pip", "script", "status", "restart"}
      [] c = "pip" -> {"script", "status", "restart"}

\* perform_update returned or raised (a cancelled call did neither)
RunEnded == run.result \in {"true", "false", "raised"}

Advanced == last_commit = run.sha /\ update_count = run.pre_count + 1

Unchanged == last_commit = run.pre_commit /\ update_count = run.pre_count

\* command c failed (non-zero exit or timeout) on all max_retries attempts
FailedAllAttempts(c) ==
    run.finCmd = c /\ run.finOkAt = 0 /\ run.finAttempts = max_retries

(* C1: for every run of perform_update that was not cancelled, last_commit  *)
(* becomes the commit's sha and update_count grows by one iff code sync and *)
(* dependency install both succeeded, whatever backup, scripts and restart  *)
(* did; otherwise both are unchanged; the call returns true exactly then.   *)
C1_StateAdvanceRule ==
    RunEnded =>
        IF run.syncRet = "true" /\ run.depsRet = "true"
        THEN Advanced /\ run.result = "true"
        ELSE Unchanged /\ run.result /= "true"

(* C2: when a code-sync command failed on all max_retries attempts, no      *)
(* later code-sync command, no install, no script and no restart has run,   *)
(* perform_update returned false and the deployment state is unchanged.     *)
C2_FailFastSync ==
    \A c \in SyncCommands :
        FailedAllAttempts(c) =>
            /\ run.ran \cap LaterThan(c) = {}
            /\ run.result = "false"
            /\ Unchanged

C2_Witness ==
    /\ FailedAllAttempts("checkout")
    /\ max_retries = MaxRetries
    /\ "fetch" \in run.done
    /\ pc = "sleep"

(* C3: when the install command failed (non-zero exit or timeout) on all    *)
(* max_retries attempts, no script and no restart has run, perform_update   *)
(* returned false and the deployment state is unchanged.                    *)
C3_FailFastInstall ==
    FailedAllAttempts("pip") =>
        /\ run.ran \cap LaterThan("pip") = {}
        /\ run.result = "false"
        /\ Unchanged

C3_Witness ==
    /\ FailedAllAttempts("pip")
    /\ max_retries = MaxRetries
    /\ run.syncRet = "true"
    /\ pc = "sleep"

\* this step ran a script or a restart, which failed by non-zero exit or timeout
BestEffortFailure ==
    /\ run'.last /= run.last
    /\ run'.last.outcome \in {"exit_nonzero", "timeout"}

(* C4: the step in which a maintenance script or a service restart fails    *)
(* (non-zero exit or timeout) does not abort the run: the run goes on with  *)
(* the next script or service, or, after the last service, returns true     *)
(* with the deployment state advanced; and whenever perform_update returns  *)
(* after code sync and install succeeded, it returns true and the state has *)
(* advanced.                                                                *)
C4_BestEffort ==
    /\ [][BestEffortFailure =>
             \/ pc' \in {"scripts", "restart"}
             \/ run'.result = "true" /\ Advanced']_vars
    /\ []((run.syncRet = "true" /\ run.depsRet = "true" /\ run.result \in {"true", "false"})
            => (run.result = "true" /\ Advanced))

C4_Witness ==
    /\ run.result = "true"
    /\ run.softFail
    /\ {"script", "restart"} \subseteq run.ran
    /\ Advanced
    /\ run.pre_commit /= run.sha

(* C5: a command that gave up was attempted exactly max_retries times; one  *)
(* retry_delay wait lies between consecutive attempts and none follows the  *)
(* last; a timeout counts like a non-zero exit; a command that succeeded on *)
(* attempt k was attempted k times and is not attempted again.              *)
C5_RetryBound ==
    /\ run.attempts <= max_retries
    /\ run.finCmd /= "none" => run.finWaits = run.finAttempts - 1
    /\ (run.finCmd /= "none" /\ run.finOkAt = 0) =>
            /\ run.finAttempts = max_retries
            /\ run.exhausted = run.finCmd
            /\ run.exhaustedBy \in {"exit_nonzero", "timeout"}
    /\ run.finOkAt /= 0 => run.finAttempts = run.finOkAt /\ run.finCmd \in run.done
    /\ pc \in {"fetch", "fetch_sleep"} => CommandName(cmd) \notin run.done
    /\ pc \in {"pip", "pip_sleep"} => "pip" \notin run.done

C5_Witness ==
    /\ run.exhaustedBy = "timeout"
    /\ max_retries = MaxRetries
    /\ run.finAttempts = MaxRetries
    /\ run.finWaits = MaxRetries - 1
    /\ run.done /= {}

(* C6: has_update_available returns (true, descriptor) exactly when the     *)
(* remote query gave a descriptor, the local revision was read and the two  *)
(* identifiers differ; (false, descriptor) when they are equal or the local *)
(* revision cannot be read; (false, null) when the remote query fails (a    *)
(* status other than 200, or a network-level failure).                      *)
C6_HasUpdateResult ==
    lastCheck.remote /= "none" =>
        LET bothOk == lastCheck.remote = "ok" /\ lastCheck.local = "ok"
        IN  /\ lastCheck.has <=> (bothOk /\ lastCheck.tip /= lastCheck.headAt)
            /\ lastCheck.has => lastCheck.info = lastCheck.tip
            /\ (bothOk /\ lastCheck.tip = lastCheck.headAt) => lastCheck.info = lastCheck.tip
            /\ (lastCheck.remote = "ok" /\ lastCheck.local /= "ok") =>
                    ~lastCheck.has /\ lastCheck.info = lastCheck.tip
            /\ lastCheck.remote \in {"not_found", "forbidden", "other_status", "network_error"} =>
                    ~lastCheck.has /\ lastCheck.info = None

C6_Witness ==
    /\ lastCheck.remote = "ok"
    /\ lastCheck.local = "exit_nonzero"
    /\ ~lastCheck.has
    /\ lastCheck.info = lastCheck.tip
    /\ pc = "sleep"

(* C7: has_update_available never raises: every remote and local outcome    *)
(* yields a pair, and HTTP 404 yields (false, null).                        *)
C7_NoExceptionEscapes ==
    /\ ~lastCheck.raised
    /\ lastCheck.remote = "not_found" => ~lastCheck.has /\ lastCheck.info = None

(* C8: no pipeline run starts in a cycle whose check saw the remote tip     *)
(* equal to the local revision, and none starts after a run that succeeded  *)
(* for commit X for as long as the remote tip has stayed X.                 *)
C8_NoChangeNoRun ==
    pc \in PipelinePcs =>
        /\ lastCheck.tip /= lastCheck.headAt
        /\ succeededFor = None

C8_Witness ==
    /\ pc = "sleep"
    /\ run = NoRun
    /\ lastCheck.remote = "ok"
    /\ lastCheck.local = "ok"
    /\ succeededFor = lastCheck.tip
    /\ update_count > 0

(* C9: a cancellation request never stops the scheduler while               *)
(* perform_update is in progress.                                           *)
C9_PipelineNotInterrupted ==
    cancelledAt \notin PipelinePcs

(* C10: the loop stops only on a cancellation request; a cycle that raised  *)
(* is followed by a next update check; without cancellation an update check *)
(* happens again and again.                                                 *)
C10_LoopLiveness ==
    /\ [][pc' = "stopped" => cancelledAt' /= "none"]_vars
    /\ [](pc = "sleep_exc" => <>(pc = "check" \/ cancelledAt /= "none"))
    /\ ([]<>(pc = "check") \/ <>(cancelledAt /= "none"))

C10_Witness ==
    /\ pc = "check"
    /\ caught
    /\ cancelledAt = "none"

\* the waits between cycles: line 342, and line 349 after a cycle that raised
IdleWaits == {"sleep", "sleep_exc"}

(* C11: a cancellation request that arrives during the wait between cycles  *)
(* (the wait after a cycle that raised included) ends the wait at once: the *)
(* loop is stopped by that very step, without the wait completing, and      *)
(* afterwards no update check is made and no pipeline run is started.       *)
C11_PromptCancellation ==
    /\ [][(pc \in IdleWaits /\ cancelledAt' /= cancelledAt) => pc' = "stopped"]_vars
    /\ [][(cancelledAt \in IdleWaits) => UNCHANGED <<pc, lastCheck, run>>]_vars
    /\ [](cancelledAt \in IdleWaits => pc = "stopped")

C11_Witness ==
    /\ pc = "stopped"
    /\ cancelledAt = "sleep_exc"
    /\ caught
    /\ update_count > 0

(* C12: every pipeline run that returned is followed by exactly one         *)
(* notification, carrying that run's commit and that run's success value,   *)
(* in continuous and in single-shot mode, for failed runs as for successful *)
(* ones; a cycle without a pipeline run emits no notification.              *)
C12_OneNotificationPerRun ==
    /\ run.result \in {"true", "false"} =>
            notified = <<[sha |-> run.sha, success |-> (run.result = "true")]>>
    /\ run.sha = None => notified = <<>>
    /\ Len(notified) <= 1

\* main() was left by an exception of the check or of the run
Crashed == lastCheck.raised \/ run.result = "raised"

(* C13: single-shot mode makes exactly one call of has_update_available and *)
(* at most one pipeline run, exactly one when the check detected an update; *)
(* it never waits between cycles; and the process ends: main() returns      *)
(* unless an exception or an interrupt left it.                             *)
C13_SingleShot ==
    /\ [][lastCheck' /= lastCheck => (lastCheck = NoCheck /\ pc = "check")]_vars
    /\ [][run'.sha /= run.sha => (run = NoRun /\ pc = "check")]_vars
    /\ [](pc \in PipelinePcs => lastCheck.has)
    /\ [](pc \in {"returned", "crashed"} =>
            /\ lastCheck /= NoCheck
            /\ run.sha /= None <=> lastCheck.has
            /\ pc = "crashed" <=> Crashed)
    /\ [](pc \notin IdleWaits)
    /\ <>(pc \in Halted)

C13_Witness ==
    /\ once
    /\ pc = "returned"
    /\ lastCheck.has
    /\ run.result = "true"
    /\ update_count = 1

(* C14: when no dependency manifest exists the install command is never    *)
(* executed and the stage succeeds at once, without an attempt, a retry or  *)
(* a delay: the run goes straight on to the maintenance scripts; code sync  *)
(* has succeeded then, and whenever perform_update returns it returns true  *)
(* with last_commit equal to the commit's identifier.                       *)
C14_NoManifestNoInstall ==
    /\ [][(run'.manifest = "absent" /\ run.manifest /= "absent") =>
             /\ pc = "install" /\ pc' = "scripts"
             /\ run'.depsRet = "true"
             /\ run'.attempts = run.attempts /\ run'.waits = run.waits
             /\ run'.ran = run.ran]_vars
    /\ [](run.manifest = "absent" =>
             /\ "pip" \notin run.ran
             /\ pc \notin {"install", "pip", "pip_sleep"}
             /\ run.depsRet = "true"
             /\ run.syncRet = "true"
             /\ SyncCommands \subseteq run.done
             /\ run.result \in {"true", "false"} =>
                    (run.result = "true" /\ last_commit = run.sha))

C14_Witness ==
    /\ run.manifest = "absent"
    /\ run.result = "true"
    /\ last_commit = run.sha
    /\ run.pre_commit /= run.sha
    /\ "pip" \notin run.ran
    /\ head = run.sha

\* the stage of perform_update (1..5) the thread is in
StageOf(p) ==
    CASE p = "backup" -> 1
      [] p \in {"fetch", "fetch_sleep"} -> 2
      [] p \in {"install", "pip", "pip_sleep"} -> 3
      [] p = "scripts" -> 4
      [] p = "restart" -> 5

(* C15: within one pipeline run the backup is attempted before any          *)
(* code-sync command; fetch, checkout and hard reset run in this order,     *)
(* each only after the previous one succeeded; dependency install starts    *)
(* only after the hard reset succeeded; maintenance scripts start only      *)
(* after dependency install succeeded; service restarts start only after    *)
(* the last maintenance script was processed; the run moves only forward    *)
(* through the stages and through the items of a stage, so no stage is      *)
(* executed twice.                                                          *)
C15_StageOrder ==
    /\ [](run.ran /= {} => "backup" \in run.ran)
    /\ [](pc \in PipelinePcs \ {"backup"} => "backup" \in run.ran)
    /\ []("checkout" \in run.ran => "fetch" \in run.done)
    /\ []("reset" \in run.ran => "checkout" \in run.done)
    /\ []((pc \in {"install", "pip", "pip_sleep"} \/ run.manifest /= "none")
            => SyncCommands \subseteq run.done)
    /\ []((pc = "scripts" \/ "script" \in run.ran) => run.depsRet = "true")
    /\ []((pc = "restart" \/ "status" \in run.ran) =>
            (run.depsRet = "true" /\ run.last.stage /= "none"))
    /\ [][(pc' = "restart" /\ pc /= "restart") =>
             /\ pc = "scripts" /\ cmd = NumScripts
             /\ run'.last.stage = "script" /\ run'.last.idx = NumScripts]_vars
    /\ [][(pc \in PipelinePcs /\ pc' \in PipelinePcs) =>
             /\ StageOf(pc') >= StageOf(pc)
             /\ StageOf(pc') = StageOf(pc) => cmd' >= cmd
             /\ (StageOf(pc') = StageOf(pc) /\ StageOf(pc) >= 4) =>
                    \/ cmd' = cmd + 1
                    \/ cmd' = cmd /\ run'.last = run.last /\ run'.ran = run.ran
             /\ run'.sha = run.sha]_vars

C15_Witness ==
    /\ run.result = "true"
    /\ {"backup", "fetch", "checkout", "reset", "pip", "script", "status", "restart"}
            \subseteq run.ran
    /\ run.done = {"fetch", "checkout", "reset", "pip"}
    /\ run.last = [stage |-> "restart", idx |-> NumServices, outcome |-> "ok"]

(* C16: no outcome of one service's liveness query or restart request       *)
(* propagates out of restart_application: once the restart stage has begun, *)
(* the run does not end by an exception, and a restart request is issued    *)
(* only for a service whose liveness query reported it active.              *)
C16_RestartPerService ==
    /\ run.last.stage = "restart" => run.result /= "raised"
    /\ (run.last.stage = "restart" /\ run.last.outcome \in CmdOutcomes \ {"error"})
            => "restart" \in run.ran

(* C17: when perform_update returned false for a commit and the remote tip  *)
(* has not moved since, the next cycle's update check, if it can read both  *)
(* the remote tip and the local revision, returns true again and starts a   *)
(* pipeline run for the same commit, whichever stage had failed.            *)
C17_FailedRunRetried ==
    [][(failedFor /= None /\ lastCheck' /= lastCheck
          /\ lastCheck'.remote = "ok" /\ lastCheck'.local = "ok") =>
            /\ lastCheck'.has
            /\ pc' = "backup"
            /\ run'.sha = failedFor]_vars

(* C18: whenever the scheduler is idle between cycles (no pipeline run in   *)
(* progress), the in-memory last_commit equals the revision the local       *)
(* repository HEAD resolves to.  Stated here for the idle states in which   *)
(* last_commit holds a revision and the previous cycle ended without an     *)
(* exception, where the equality already fails.                             *)
C18_TrackedMatchesHead ==
    (pc \in {"check", "sleep"} /\ ~caught /\ last_commit /= None) => last_commit = head

(* C19: for every retry count the constructor accepts, zero and negative    *)
(* values included, perform_update returns true and advances last_commit    *)
(* only if, in that run, each of the three code-sync commands exited        *)
(* successfully at least once and, when the manifest is present, the        *)
(* install command exited successfully at least once.                       *)
C19_SuccessMeansCommandsRan ==
    (run.result = "true" \/ (run.sha /= None /\ last_commit = run.sha /\
                             update_count > run.pre_count)) =>
        /\ SyncCommands \subseteq run.done
        /\ run.manifest = "present" => "pip" \in run.done

====
